---- MODULE Spec2Model ----
(***************************************************************************)
(* Model of "Detection algorithm/main.go": the image-classification HTTP   *)
(* handler (recognizeHandler) and the functions it is built from:          *)
(* readImage, preprocessImage, recognizeImage and getTopK.                 *)
(*                                                                         *)
(* Four specifications are defined:                                        *)
(*   SpecTopK    - getTopK called on any vector, any k, any vocabulary     *)
(*   SpecDecode  - readImage called on any byte stream, seekable or not    *)
(*   SpecPre     - preprocessImage called on any decoded image             *)
(*   Spec        - recognizeHandler serving one request, stage by stage    *)
(*                                                                         *)
(* External libraries (image/jpeg, image/png, nfnt/resize, tensorflow/go)  *)
(* are modelled at the interface the source uses: the outcome of a call    *)
(* the source cannot determine is a choice of the environment.             *)
(***************************************************************************)
EXTENDS Integers, Sequences, FiniteSets, TLC

VARIABLES
    labels,       \* the vocabulary (global `labels`), a sequence of strings
    predictions,  \* getTopK: the probability vector passed in
    k,            \* getTopK: the k passed in
    preds,        \* getTopK: the local `preds` after the sorting loops
    results,      \* getTopK: the returned slice
    stream,       \* readImage: the bytes behind the reader
    seekable,     \* readImage: whether the reader implements io.Seeker
    pos,          \* readImage: the reader's offset
    attempts,     \* readImage: what each codec attempt was given to decode
    img,          \* the decoded image (readImage's result)
    resized,      \* preprocessImage: the local `resized`
    imgData,      \* preprocessImage: the local `imgData`
    batch,        \* preprocessImage: the local `batch`
    tensor,       \* preprocessImage: the returned tensor
    method,       \* the request's method
    hasFile,      \* whether the form carries a readable "image" file
    engineOut,    \* what session.Run returned
    status,       \* the response status (0: nothing written)
    body,         \* the response body
    calls,        \* the steps invoked so far, in order
    pc            \* position of the call / of the handler

vars == <<labels, predictions, k, preds, results, stream, seekable, pos,
          attempts, img, resized, imgData, batch, tensor, method, hasFile,
          engineOut, status, body, calls, pc>>

(***************************************************************************)
(* Bounds of the model.                                                    *)
(***************************************************************************)
MaxLen == 3        \* longest probability vector
MaxProb == 2       \* confidences are the levels 0..MaxProb
MaxK == 4          \* largest k passed to getTopK directly
MaxLabels == 3     \* largest vocabulary
MaxDim == 3        \* largest width / height of a decoded image
MaxSeed == 1       \* pixel contents are drawn from the family 0..MaxSeed
inputWidth == 3    \* the configured width, scaled down from 224
inputHeight == 2   \* the configured height, scaled down from 224

Min(a, b) == IF a < b THEN a ELSE b

SeqsUpTo(S, n) == UNION {[1..m -> S] : m \in 0..n}

Vectors == SeqsUpTo(0..MaxProb, MaxLen)

LabelNames == <<"label0", "label1", "label2", "label3", "label4", "label5">>

LabelName(i) == LabelNames[i + 1]

Vocabularies == {[i \in 1..n |-> LabelName(i - 1)] : n \in 0..MaxLabels}

Unknown == "unknown"

(***************************************************************************)
(* getTopK                                                                 *)
(***************************************************************************)
\* lines 136-139: preds[i] = pred{i, predictions[i]} (index is 0-based)
MakePreds(p) == [i \in 1..Len(p) |-> [index |-> i - 1, value |-> p[i]]]

Swap(p, i, j) == [p EXCEPT ![i] = p[j], ![j] = p[i]]

ShouldSwapAscending(p, i, j) == p[j].value < p[i].value

\* line 142: the comparison that triggers the exchange
ShouldSwap(p, i, j) == p[j].value > p[i].value

RECURSIVE InnerLoop(_, _, _)
\* lines 141-145: for j := i+1; j < len(preds); j++
InnerLoop(p, i, j) ==
    IF j > Len(p) THEN p
    ELSE InnerLoop(IF ShouldSwap(p, i, j) THEN Swap(p, i, j) ELSE p, i, j + 1)

RECURSIVE OuterLoop(_, _)
\* lines 140-146: for i := 0; i < len(preds)-1; i++
OuterLoop(p, i) ==
    IF i >= Len(p) THEN p
    ELSE OuterLoop(InnerLoop(p, i, i + 1), i + 1)

SortPreds(p) == OuterLoop(MakePreds(p), 1)

\* lines 147-149: clamp k
ClampK(kk, n) == IF kk > n THEN n ELSE kk

LabelForEmpty(idx, ls) == IF idx < Len(ls) THEN ls[idx + 1] ELSE ""

\* lines 153-156: label := "unknown"; if idx < len(labels) { label = labels[idx] }
LabelFor(idx, ls) == IF idx < Len(ls) THEN ls[idx + 1] ELSE Unknown

\* lines 150-162: the result slice built from the first k sorted entries
BuildResults(sorted, kk, ls) ==
    [i \in 1..(IF kk < 0 THEN 0 ELSE kk) |->
        [label |-> LabelFor(sorted[i].index, ls), confidence |-> sorted[i].value]]

GetTopKResults(p, kk, ls) == BuildResults(SortPreds(p), ClampK(kk, Len(p)), ls)

(***************************************************************************)
(* Values for the variables a specification does not use.                  *)
(***************************************************************************)
NoImage == [ok |-> FALSE, w |-> 0, h |-> 0, seed |-> 0]
NoTensor == [ok |-> FALSE, shape |-> <<>>, value |-> <<>>]
NoEngineOut == [kind |-> "none", rows |-> <<>>]
NoBody == [kind |-> "none", text |-> "", items |-> <<>>]

TopKIdle ==
    /\ predictions = <<>> /\ k = 0 /\ preds = <<>> /\ results = <<>>

DecodeIdle ==
    /\ stream = <<>> /\ seekable = TRUE /\ pos = 0 /\ attempts = <<>>

PreIdle ==
    /\ resized = NoImage /\ imgData = <<>> /\ batch = <<>> /\ tensor = NoTensor

HandlerIdle ==
    /\ method = "POST" /\ hasFile = TRUE /\ engineOut = NoEngineOut
    /\ status = 0 /\ body = NoBody

(***************************************************************************)
(* SpecTopK: getTopK as a function                                         *)
(***************************************************************************)
InitTopK ==
    /\ labels \in Vocabularies
    /\ predictions \in Vectors
    /\ k \in 0..MaxK
    /\ preds = <<>> /\ results = <<>>
    /\ DecodeIdle /\ PreIdle /\ HandlerIdle
    /\ img = NoImage
    /\ calls = <<>>
    /\ pc = "getTopK"

GetTopKCall ==
    /\ pc = "getTopK"
    /\ preds' = SortPreds(predictions)
    /\ results' = GetTopKResults(predictions, k, labels)
    /\ calls' = Append(calls, "getTopK")
    /\ pc' = "getTopK_ret"
    /\ UNCHANGED <<labels, predictions, k, stream, seekable, pos, attempts, img,
                   resized, imgData, batch, tensor, method, hasFile, engineOut,
                   status, body>>

NextTopK == GetTopKCall

SpecTopK == InitTopK /\ [][NextTopK]_vars

Returned == pc = "getTopK_ret"

\* C1: entries of equal confidence are returned in ascending order of their
\* original class index (the lower index first).
C1_TieBreakAscendingIndex ==
    Returned =>
        \A i, j \in 1..Len(results) :
            (i < j /\ preds[i].value = preds[j].value)
                => preds[i].index < preds[j].index

\* C2: getTopK returns exactly min(k, n) entries, in non-increasing order of
\* confidence, each taken from a different index of the input, and every
\* input entry left out is no larger than any entry returned.
C2_TopKLargest ==
    Returned =>
        LET n == Len(predictions)
            m == Len(results)
        IN /\ m = Min(k, n)
           /\ \A i \in 1..m : /\ preds[i].index \in 0..(n - 1)
                               /\ results[i].confidence = predictions[preds[i].index + 1]
           /\ \A i, j \in 1..m : i # j => preds[i].index # preds[j].index
           /\ \A i, j \in 1..m : i < j => results[i].confidence >= results[j].confidence
           /\ \A x \in 0..(n - 1) :
                  (\A i \in 1..m : preds[i].index # x)
                      => \A i \in 1..m : predictions[x + 1] <= results[i].confidence

C2_Witness ==
    /\ Returned
    /\ Len(predictions) = 3 /\ k = 2
    /\ predictions[1] < predictions[3] /\ predictions[3] < predictions[2]
    /\ Len(results) = 2

\* C6: every returned entry carries labels[index] when its original index is
\* inside the vocabulary and "unknown" otherwise, and no entry is skipped;
\* with 2 labels, 3 classes, the only maximum at index 2 and k = 1 the label
\* is "unknown".
C6_LabelOrUnknown ==
    Returned =>
        /\ Len(results) = Min(k, Len(predictions))
        /\ \A i \in 1..Len(results) :
              LET idx == preds[i].index
              IN /\ idx < Len(labels) => results[i].label = labels[idx + 1]
                 /\ idx >= Len(labels) => results[i].label = "unknown"
        /\ (/\ Len(labels) = 2 /\ Len(predictions) = 3 /\ k = 1
            /\ predictions[3] > predictions[1] /\ predictions[3] > predictions[2])
               => /\ Len(results) = 1
                  /\ results[1].label = "unknown"
                  /\ results[1].confidence = predictions[3]

C6_Witness ==
    /\ Returned
    /\ Len(labels) = 2 /\ Len(predictions) = 3 /\ k = 1
    /\ predictions[3] > predictions[1] /\ predictions[3] > predictions[2]
    /\ results[1].label = "unknown"

(***************************************************************************)
(* readImage                                                               *)
(*                                                                         *)
(* An encoded image is modelled as three bytes: the codec's magic byte,    *)
(* the width and the height.  A codec accepts exactly the byte sequences   *)
(* that start with its own magic and carry both dimensions.                *)
(***************************************************************************)
JpegMagic == 255
PngMagic == 137
OtherByte == 66

Dims == 0..MaxDim

Bytes == {JpegMagic, PngMagic, OtherByte} \cup Dims

HeaderLen == 3

StreamLen == 3

Streams == SeqsUpTo(Bytes, StreamLen)

Encodes(magic, view) ==
    /\ Len(view) >= HeaderLen
    /\ view[1] = magic
    /\ view[2] \in Dims
    /\ view[3] \in Dims

Decoded(view) == [ok |-> TRUE, w |-> view[2], h |-> view[3], seed |-> 0]

ValidJpeg(view) == Encodes(JpegMagic, view)

\* image/png refuses a header with a non-positive dimension
ValidPng(view) == Encodes(PngMagic, view) /\ view[2] > 0 /\ view[3] > 0

\* line 49: jpeg.Decode(r) on the bytes the reader still has to give
JpegDecode(view) == IF ValidJpeg(view) THEN Decoded(view) ELSE NoImage

\* line 57: png.Decode(r) on the bytes the reader still has to give
PngDecode(view) == IF ValidPng(view) THEN Decoded(view) ELSE NoImage

Rest(s, p) == SubSeq(s, p + 1, Len(s))

\* The offsets a decoder can leave the reader at: it reads at least one byte
\* when there is one, and as much as a single Read hands it.
OffsetsAfterRead(s, p) == IF p >= Len(s) THEN {p} ELSE (p + 1)..Len(s)

\* lines 53-56: the reader is rewound only when it implements io.Seeker
SeekStart(isSeeker, p) == IF isSeeker THEN 0 ELSE p

\* lines 48-62: every way a call of readImage can go; an outcome records
\* the image returned, the final offset and what each attempt was given
ReadImageOutcomes(s, isSeeker) ==
    LET jpg == JpegDecode(Rest(s, 0))
        first == [codec |-> "jpeg", view |-> Rest(s, 0)]
    IN {[img |-> jpg, pos |-> p1, attempts |-> <<first>>] :
            p1 \in {q \in OffsetsAfterRead(s, 0) : jpg.ok}}
       \cup
       {[img |-> PngDecode(Rest(s, SeekStart(isSeeker, p1))),
         pos |-> p2,
         attempts |-> <<first, [codec |-> "png",
                                view |-> Rest(s, SeekStart(isSeeker, p1))]>>] :
            <<p1, p2>> \in {pp \in (0..Len(s)) \X (0..Len(s)) :
                               /\ ~jpg.ok
                               /\ pp[1] \in OffsetsAfterRead(s, 0)
                               /\ pp[2] \in OffsetsAfterRead(s, SeekStart(isSeeker, pp[1]))}}

(***************************************************************************)
(* SpecDecode: readImage as a function                                     *)
(***************************************************************************)
InitDecode ==
    /\ stream \in Streams
    /\ seekable \in BOOLEAN
    /\ pos = 0 /\ attempts = <<>>
    /\ img = NoImage
    /\ labels = <<>>
    /\ TopKIdle /\ PreIdle /\ HandlerIdle
    /\ calls = <<>>
    /\ pc = "readImage"

ReadImageCall ==
    /\ pc = "readImage"
    /\ \E o \in ReadImageOutcomes(stream, seekable) :
          /\ img' = o.img
          /\ pos' = o.pos
          /\ attempts' = o.attempts
    /\ calls' = Append(calls, "readImage")
    /\ pc' = "readImage_ret"
    /\ UNCHANGED <<labels, predictions, k, preds, results, stream, seekable,
                   resized, imgData, batch, tensor, method, hasFile, engineOut,
                   status, body>>

NextDecode == ReadImageCall

SpecDecode == InitDecode /\ [][NextDecode]_vars

\* C3: every codec attempt of readImage decodes the complete input from
\* offset 0, whether or not the source is seekable, so every valid PNG is
\* decoded successfully.
C3_EveryAttemptSeesWholeInput ==
    pc = "readImage_ret" =>
        /\ \A i \in 1..Len(attempts) : attempts[i].view = stream
        /\ ValidPng(stream) => img.ok

(***************************************************************************)
(* preprocessImage                                                         *)
(*                                                                         *)
(* An image is its width, its height and a seed that determines the colour *)
(* of every pixel; different seeds give different pictures, and within a   *)
(* picture every channel of every pixel has its own 16-bit value.          *)
(***************************************************************************)
ChannelMax == 65535

Images == [ok : {TRUE}, w : Dims, h : Dims, seed : 0..MaxSeed]

\* line 74: resized.At(x, y).RGBA(), the 16-bit red, green and blue samples
At(im, x, y) ==
    [c \in 1..3 |-> (im.seed * 4099 + y * 64 + x * 4 + (c - 1)) % (ChannelMax + 1)]

\* lines 75-77: float32(v)/65535.0, kept as the exact quotient
Norm(v) == [num |-> v, den |-> ChannelMax]

\* line 65: resize.Resize(width, height, img, Lanczos3).  The library returns
\* its argument when the size already matches or when the image has no
\* pixels; otherwise a new width x height image whose resampled content is
\* not determined here.
ResizeOutcomes(width, height, im) ==
    IF (im.w = width /\ im.h = height) \/ im.w <= 0 \/ im.h <= 0
    THEN {im}
    ELSE {[ok |-> TRUE, w |-> width, h |-> height, seed |-> sd] : sd \in 0..MaxSeed}

PixelValuesBGR(im, x, y) ==
    <<Norm(At(im, x, y)[3]), Norm(At(im, x, y)[2]), Norm(At(im, x, y)[1])>>

\* lines 74-77: the three values appended for the pixel at column x, row y
PixelValues(im, x, y) ==
    <<Norm(At(im, x, y)[1]), Norm(At(im, x, y)[2]), Norm(At(im, x, y)[3])>>

RECURSIVE FlattenRow(_, _, _, _, _)
\* lines 73-78: for x := 0; x < width; x++
FlattenRow(im, y, x, width, acc) ==
    IF x >= width THEN acc
    ELSE FlattenRow(im, y, x + 1, width, acc \o PixelValues(im, x, y))

RECURSIVE FlattenImage(_, _, _, _, _)
\* lines 72-79: for y := 0; y < height; y++
FlattenImage(im, y, width, height, acc) ==
    IF y >= height THEN acc
    ELSE FlattenImage(im, y + 1, width, height, FlattenRow(im, y, 0, width, acc))

RECURSIVE PackRow(_, _, _, _, _)
\* lines 89-94: one row of the batch; yields the row and the running idx
PackRow(data, x, width, idx, row) ==
    IF x >= width THEN [row |-> row, idx |-> idx]
    ELSE PackRow(data, x + 1, width, idx + 3,
                 Append(row, SubSeq(data, idx + 1, idx + 3)))

RECURSIVE PackRows(_, _, _, _, _, _)
\* lines 87-95: for y := 0; y < height; y++
PackRows(data, y, width, height, idx, rows) ==
    IF y >= height THEN rows
    ELSE LET r == PackRow(data, 0, width, idx, <<>>)
         IN PackRows(data, y + 1, width, height, r.idx, Append(rows, r.row))

PackBatchTransposed(data, width, height) == <<PackRows(data, 0, height, width, 0, <<>>)>>

\* lines 84-95: batch := make([][][][]float32, 1); batch[0] = the rows
PackBatch(data, width, height) == <<PackRows(data, 0, width, height, 0, <<>>)>>

RECURSIVE ShapeOf(_, _)
\* tf.NewTensor's shape of a nested slice: the length at every level, taken
\* along the first element; below an empty slice every length is 0
ShapeOf(v, depth) ==
    IF depth = 0 THEN <<>>
    ELSE IF v = <<>> THEN [i \in 1..depth |-> 0]
    ELSE <<Len(v)>> \o ShapeOf(v[1], depth - 1)

\* lines 80-83 and 97-100: tf.NewTensor(value); whether the library accepts
\* the value is its own decision
NewTensor(b, accepted) ==
    IF accepted THEN [ok |-> TRUE, shape |-> ShapeOf(b, 4), value |-> b] ELSE NoTensor

\* lines 64-103: preprocessImage once the library calls' outcomes are fixed:
\* rs is what Resize returned, firstOk and secondOk say whether the first and
\* the second tf.NewTensor call succeeded
PreprocessResult(rs, firstOk, secondOk) ==
    LET data == FlattenImage(rs, 0, rs.w, rs.h, <<>>)
        b == PackBatch(data, rs.w, rs.h)
    IN [resized |-> rs,
        imgData |-> data,
        batch |-> IF firstOk THEN b ELSE <<>>,
        tensor |-> IF firstOk THEN NewTensor(b, secondOk) ELSE NoTensor,
        steps |-> IF firstOk
                  THEN <<"resize", "flatten", "NewTensor", "pack", "NewTensor">>
                  ELSE <<"resize", "flatten", "NewTensor">>]

\* every way a call of preprocessImage can go
PreprocessOutcomes(im) ==
    {PreprocessResult(o[1], o[2], o[3]) :
        o \in ResizeOutcomes(inputWidth, inputHeight, im) \X BOOLEAN \X BOOLEAN}

(***************************************************************************)
(* SpecPre: preprocessImage as a function                                  *)
(***************************************************************************)
InitPre ==
    /\ img \in Images
    /\ labels = <<>>
    /\ TopKIdle /\ DecodeIdle /\ PreIdle /\ HandlerIdle
    /\ calls = <<>>
    /\ pc = "preprocessImage"

PreprocessCall ==
    /\ pc = "preprocessImage"
    /\ \E o \in PreprocessOutcomes(img) :
          /\ resized' = o.resized
          /\ imgData' = o.imgData
          /\ batch' = o.batch
          /\ tensor' = o.tensor
          /\ calls' = <<"preprocessImage">> \o o.steps
    /\ pc' = "preprocessImage_ret"
    /\ UNCHANGED <<labels, predictions, k, preds, results, stream, seekable, pos,
                   attempts, img, method, hasFile, engineOut, status, body>>

NextPre == PreprocessCall

SpecPre == InitPre /\ [][NextPre]_vars

InCalls(step) == \E i \in 1..Len(calls) : calls[i] = step

PreReturned == pc = "preprocessImage_ret"

\* C4 (preprocessImage): an image of zero width or zero height is rejected
\* before resampling: neither the resize step nor the packing step runs and
\* no tensor is returned.
C4_ZeroSizeRejectedBeforeResize ==
    (PreReturned /\ (img.w = 0 \/ img.h = 0)) =>
        /\ ~InCalls("resize")
        /\ ~InCalls("pack")
        /\ ~tensor.ok

\* C9: for an image of positive width and height, a tensor returned by
\* preprocessImage has shape [1, inputHeight, inputWidth, 3]: one batch of
\* inputHeight rows, every row inputWidth pixels, every pixel 3 channels.
C9_TensorShape ==
    (PreReturned /\ img.w > 0 /\ img.h > 0 /\ tensor.ok) =>
        /\ tensor.shape = <<1, inputHeight, inputWidth, 3>>
        /\ Len(tensor.value) = 1
        /\ Len(tensor.value[1]) = inputHeight
        /\ \A y \in 1..inputHeight :
              /\ Len(tensor.value[1][y]) = inputWidth
              /\ \A x \in 1..inputWidth : Len(tensor.value[1][y][x]) = 3

C9_Witness ==
    /\ PreReturned /\ tensor.ok
    /\ img.w = 1 /\ img.h = 1
    /\ tensor.shape = <<1, inputHeight, inputWidth, 3>>

\* C10: the tensor is row-major, y outer, x inner, channel innermost:
\* tensor[0][y][x][c] is the normalized channel c (red, green, blue) of the
\* resized pixel at column x, row y.
C10_RowMajorLayout ==
    (PreReturned /\ tensor.ok) =>
        /\ Len(tensor.value) = 1
        /\ Len(tensor.value[1]) = resized.h
        /\ \A y \in 0..(resized.h - 1) :
              /\ Len(tensor.value[1][y + 1]) = resized.w
              /\ \A x \in 0..(resized.w - 1) :
                    /\ Len(tensor.value[1][y + 1][x + 1]) = 3
                    /\ \A c \in 1..3 :
                          tensor.value[1][y + 1][x + 1][c]
                              = [num |-> At(resized, x, y)[c], den |-> 65535]

C10_Witness ==
    /\ PreReturned /\ tensor.ok
    /\ resized.w = inputWidth /\ resized.h = inputHeight
    /\ resized.w > 1 /\ resized.h > 1
    /\ tensor.value[1][2][1] # tensor.value[1][1][2]
    /\ tensor.value[1][2][1][1] = [num |-> At(resized, 0, 1)[1], den |-> 65535]

(***************************************************************************)
(* recognizeImage and recognizeHandler                                     *)
(***************************************************************************)
TopK == 5

\* lines 106-114: what session.Run can hand back: an error, an empty output
\* list, an output whose value is not a [][]float32, or rows of floats
EngineOutcomes ==
    {[kind |-> kd, rows |-> <<>>] : kd \in {"err", "noOutput", "wrongType"}}
    \cup {[kind |-> "rows", rows |-> r] : r \in {<<>>} \cup {<<v>> : v \in Vectors}}

\* line 119: output[0].Value().([][]float32)[0] panics on an empty output
\* list, on a value of another type and on a value without rows
Line119Panics(out) ==
    \/ out.kind \in {"noOutput", "wrongType"}
    \/ out.kind = "rows" /\ out.rows = <<>>

MethodRejectedOnlyGet(m) == m = "GET"

\* line 166: r.Method != http.MethodPost
MethodRejected(m) == m # "POST"

DecodeErrorIgnored(im) == FALSE

\* line 178: err != nil after readImage
DecodeFailed(im) == ~im.ok

ErrorBody(msg) == [kind |-> "error", text |-> msg, items |-> <<>>]

\* line 196: json.NewEncoder(w).Encode(results); a nil slice encodes as null
JsonBody(rs) ==
    [kind |-> "json", text |-> IF rs = <<>> THEN "null" ELSE "array", items |-> rs]

Methods == {"GET", "POST", "PUT"}

Init ==
    /\ labels \in Vocabularies
    /\ method \in Methods
    /\ hasFile \in BOOLEAN
    /\ stream \in (IF hasFile THEN Streams ELSE {<<>>})
    /\ seekable = TRUE
    /\ pos = 0 /\ attempts = <<>>
    /\ img = NoImage
    /\ TopKIdle /\ PreIdle
    /\ engineOut = NoEngineOut
    /\ status = 0 /\ body = NoBody
    /\ calls = <<>>
    /\ pc = "start"

Respond(code, b) ==
    /\ status' = code
    /\ body' = b
    /\ pc' = "done"

\* lines 166-169
CheckMethod ==
    /\ pc = "start"
    /\ IF MethodRejected(method)
       THEN Respond(405, ErrorBody("Method not allowed, use POST"))
       ELSE /\ pc' = "FormFile"
            /\ UNCHANGED <<status, body>>
    /\ UNCHANGED <<labels, predictions, k, preds, results, stream, seekable, pos,
                   attempts, img, resized, imgData, batch, tensor, method, hasFile,
                   engineOut, calls>>

\* lines 170-175
FormFile ==
    /\ pc = "FormFile"
    /\ calls' = Append(calls, "FormFile")
    /\ IF ~hasFile
       THEN Respond(400, ErrorBody("Error reading image file"))
       ELSE /\ pc' = "readImage"
            /\ UNCHANGED <<status, body>>
    /\ UNCHANGED <<labels, predictions, k, preds, results, stream, seekable, pos,
                   attempts, img, resized, imgData, batch, tensor, method, hasFile,
                   engineOut>>

\* lines 177-181
Decode ==
    /\ pc = "readImage"
    /\ calls' = Append(calls, "readImage")
    /\ \E o \in ReadImageOutcomes(stream, seekable) :
          /\ img' = o.img
          /\ pos' = o.pos
          /\ attempts' = o.attempts
          /\ IF DecodeFailed(o.img)
             THEN Respond(400, ErrorBody("Error decoding image"))
             ELSE /\ pc' = "preprocessImage"
                  /\ UNCHANGED <<status, body>>
    /\ UNCHANGED <<labels, predictions, k, preds, results, stream, seekable,
                   resized, imgData, batch, tensor, method, hasFile, engineOut>>

\* lines 183-187
Preprocess ==
    /\ pc = "preprocessImage"
    /\ \E o \in PreprocessOutcomes(img) :
          /\ resized' = o.resized
          /\ imgData' = o.imgData
          /\ batch' = o.batch
          /\ tensor' = o.tensor
          /\ calls' = Append(calls, "preprocessImage") \o o.steps
          /\ IF ~o.tensor.ok
             THEN Respond(500, ErrorBody("Error preprocessing image"))
             ELSE /\ pc' = "recognizeImage"
                  /\ UNCHANGED <<status, body>>
    /\ UNCHANGED <<labels, predictions, k, preds, results, stream, seekable, pos,
                   attempts, img, method, hasFile, engineOut>>

\* lines 189-193 with recognizeImage, lines 105-124.  A panic at line 119
\* unwinds the handler: nothing is written to the response.
Recognize ==
    /\ pc = "recognizeImage"
    /\ \E out \in EngineOutcomes :
          /\ engineOut' = out
          /\ IF out.kind = "err"
             THEN /\ calls' = calls \o <<"recognizeImage", "session.Run">>
                  /\ Respond(500, ErrorBody("Error running inference"))
                  /\ UNCHANGED <<predictions, k, preds, results>>
             ELSE IF Line119Panics(out)
             THEN /\ calls' = calls \o <<"recognizeImage", "session.Run">>
                  /\ pc' = "panicked"
                  /\ UNCHANGED <<predictions, k, preds, results, status, body>>
             ELSE /\ calls' = calls \o <<"recognizeImage", "session.Run", "getTopK">>
                  /\ predictions' = out.rows[1]
                  /\ k' = TopK
                  /\ preds' = SortPreds(out.rows[1])
                  /\ results' = GetTopKResults(out.rows[1], TopK, labels)
                  /\ pc' = "encode"
                  /\ UNCHANGED <<status, body>>
    /\ UNCHANGED <<labels, stream, seekable, pos, attempts, img, resized, imgData,
                   batch, tensor, method, hasFile>>

\* lines 195-196
Encode ==
    /\ pc = "encode"
    /\ Respond(200, JsonBody(results))
    /\ UNCHANGED <<labels, predictions, k, preds, results, stream, seekable, pos,
                   attempts, img, resized, imgData, batch, tensor, method, hasFile,
                   engineOut, calls>>

Next ==
    \/ CheckMethod
    \/ FormFile
    \/ Decode
    \/ Preprocess
    \/ Recognize
    \/ Encode

Spec == Init /\ [][Next]_vars

Ended == pc \in {"done", "panicked"}

Count(step) == Cardinality({i \in 1..Len(calls) : calls[i] = step})

EngineFailedOrMalformed ==
    \/ engineOut.kind \in {"err", "noOutput", "wrongType"}
    \/ engineOut.kind = "rows" /\ engineOut.rows = <<>>
    \/ engineOut.kind = "rows" /\ engineOut.rows # <<>> /\ engineOut.rows[1] = <<>>

\* C5: when the engine fails or returns malformed output (no output tensor,
\* a value of the wrong shape, a probability vector of zero length), the
\* request ends in a 500 error response, never in a success response with
\* an empty or null result list, and the handler does not crash.  Stated for
\* requests that carry an image with pixels.
C5_EngineFailureIsInferenceError ==
    (Ended /\ InCalls("session.Run") /\ EngineFailedOrMalformed
           /\ img.w > 0 /\ img.h > 0) =>
        /\ pc = "done"
        /\ status = 500
        /\ body.kind = "error"

\* C7: a request whose method is not POST is answered 405 and neither the
\* form parser, the decoder, the preprocessor nor the engine is invoked for it.
C7_NonPostRejectedFirst ==
    method # "POST" =>
        /\ calls = <<>>
        /\ pc \in {"start", "done"}
        /\ pc = "done" => (status = 405 /\ body.kind = "error")
        /\ img = NoImage /\ tensor = NoTensor /\ engineOut = NoEngineOut

C7_Witness ==
    /\ method = "GET" /\ pc = "done" /\ status = 405 /\ calls = <<>>

\* C8: when the form-file read, the decode, the preprocessing or the engine
\* call fails, the request ends there: no later stage is invoked, no stage
\* is invoked twice, and the response is an error only: 400 for a missing
\* file or undecodable bytes, 500 for a preprocessing or inference failure.
C8_FailureEndsRequest ==
    /\ \A st \in {"FormFile", "readImage", "preprocessImage", "recognizeImage",
                   "session.Run", "getTopK"} : Count(st) <= 1
    /\ (pc = "done" /\ method = "POST" /\ ~hasFile) =>
            /\ status = 400 /\ body.kind = "error" /\ body.items = <<>>
            /\ calls = <<"FormFile">>
    /\ (pc = "done" /\ method = "POST" /\ hasFile /\ ~img.ok) =>
            /\ status = 400 /\ body.kind = "error" /\ body.items = <<>>
            /\ calls = <<"FormFile", "readImage">>
    /\ (pc = "done" /\ img.ok /\ ~tensor.ok) =>
            /\ status = 500 /\ body.kind = "error" /\ body.items = <<>>
            /\ InCalls("preprocessImage")
            /\ ~InCalls("recognizeImage") /\ ~InCalls("session.Run")
            /\ ~InCalls("getTopK")
    /\ (pc = "done" /\ tensor.ok /\ engineOut.kind = "err") =>
            /\ status = 500 /\ body.kind = "error" /\ body.items = <<>>
            /\ calls[Len(calls)] = "session.Run"
            /\ results = <<>>

C8_Witness ==
    /\ pc = "done" /\ method = "POST" /\ hasFile
    /\ stream = <<OtherByte, OtherByte, OtherByte>>
    /\ ~img.ok /\ status = 400
    /\ calls = <<"FormFile", "readImage">>

====
